---- MODULE Spec2Model ----
(***************************************************************************)
(* pptcat: the indexing pipeline of src/pptcat.py as a state machine.      *)
(*                                                                         *)
(* The SQLite library is modelled as two copies of the database: dbC, the  *)
(* committed (durable) content, and dbW, the content as the open           *)
(* connection sees it (dbC plus the writes of the open transaction).       *)
(* db.commit() copies dbW to dbC; the end of the process, normal or not,   *)
(* drops the open transaction (dbW becomes dbC again).                     *)
(*                                                                         *)
(* The columns slides.text, slides.textonly and slides.hires carry values  *)
(* no step of the pipeline reads back; they are left out of the rows. The  *)
(* files written next to the database (<fileid>_<islide>.txt/.png) are     *)
(* kept in auxfiles.                                                       *)
(***************************************************************************)
EXTENDS Integers, Sequences, FiniteSets, TLC

\* ------------------------------------------------------------------ bounds
MaxCands == 2      \* longest candidate list of one run
MaxSlides == 2     \* most slides the extractor returns for one document

\* ------------------------------------------------------- the environment
\* Paths are sequences of components; an absolute path starts with "/".
cwd == <<"/", "d">>

\* The file arguments a run may be given: a relative and an absolute name
\* of the same file, and a copy under another name.
FileArgs == { <<"a.pptx">>, <<"/", "d", "a.pptx">>, <<"/", "d", "a_copy.pptx">> }

\* os.path.abspath
abspath(fn) == IF Head(fn) = "/" THEN fn ELSE cwd \o fn

AbsFiles == { abspath(fn) : fn \in FileArgs }

\* md5 digests of the byte contents a file may have
Hashes == { "h1", "h2" }

\* content of a file that exists but cannot be opened for reading
Unreadable == "EACCES"

\* Thumbnails, as the grey-level pixels average_hash works on.
Images == << <<0, 9, 0, 9>>, <<7, 7, 3, 7>> >>

\* What PowerPoint may return for a presentation: the thumbnails of its
\* slides, in order. The presentations alternate between the two thumbnails,
\* starting with either, so that a thumbnail recurs within a presentation
\* and across presentations, at equal and at different slide numbers.
Deck(n, first) == [ i \in 1..n |-> Images[((i + first) % Len(Images)) + 1] ]

Decks == { Deck(n, first) : n \in 0..MaxSlides, first \in 0..1 }

\* SQL NULL in an integer column, and in a blob column
NULL == "NULL"
NullBlob == << >>

VARIABLES
  content,          \* file system: absolute path -> digest of its bytes, or Unreadable
  dbC,              \* database, committed
  dbW,              \* database, as the connection of the running process sees it
  auxfiles,         \* files written by store_slide: <<fileid, islide, extension>>
  pc,               \* "idle" | "loop" | "extract" | "extracting" | "quit" | "slides" | "pdb"
  fns,              \* main: the candidates the for loop has still to visit
  known_checksums,  \* main: the in-memory list of known hashes
  doc,              \* process1: locals of the document in progress
  last,             \* how process1 ended for the candidate visited last
  presentations,    \* PowerPoint: the presentations open in it, oldest first
  argv              \* sys.argv[1:], where discovery is followed (DiscSpec)

vars == << content, dbC, dbW, auxfiles, pc, fns, known_checksums, doc, last,
           presentations, argv >>

\* ------------------------------------------------------------ pure parts
Range(s) == { s[i] : i \in DOMAIN s }

RECURSIVE SumPixels(_, _)
SumPixels(I, n) == IF n = 0 THEN 0 ELSE I[n] + SumPixels(I, n - 1)

\* imagehash.average_hash: one bit per pixel, set when the pixel is above
\* the mean of all pixels (p > sum/len, kept in integers)
average_hash(I) == [ i \in 1..Len(I) |-> IF I[i] * Len(I) > SumPixels(I, Len(I)) THEN 1 ELSE 0 ]

RECURSIVE BitsValue(_, _)
BitsValue(bits, n) == IF n = 0 THEN 0 ELSE 2 * BitsValue(bits, n - 1) + bits[n]

HexDigit(d) == SubSeq("0123456789abcdef", d + 1, d + 1)

RECURSIVE HexString(_, _)
HexString(v, width) == IF width = 0 THEN "" ELSE HexString(v \div 16, width - 1) \o HexDigit(v % 16)

\* str(ImageHash): the bits as a hexadecimal number, ceil(len/4) digits wide
HashToStr(bits) == HexString(BitsValue(bits, Len(bits)), (Len(bits) + 3) \div 4)

\* (variant: a fingerprint that also depends on what the run has seen so far)
image_fingerprint_stateful(I) ==
  HashToStr(average_hash(I)) \o HexDigit(Len(known_checksums) % 16)

\* str(imagehash.average_hash(I, hash_size=32)); I stands for the thumbnail
\* as average_hash has reduced it
image_fingerprint(I) == HashToStr(average_hash(I))

\* img_to_png_bytes: the PNG encoding of the image
img_to_png_bytes(I) == << "PNG", Len(I) >> \o I

\* (variant: the enumerate index taken as the slide number)
islideZeroBased(i) == i

\* 'islide': islide+1, to match PowerPoint's slide numbering
islideOf(i) == i + 1

\* extract_slides: the slide dictionaries of a deck
extract_slides(deck) == [ i \in 1..Len(deck) |-> [ islide |-> islideOf(i - 1), thumb |-> deck[i] ] ]

\* ---------------------------------------------------------- the database
EmptyDb == [ files |-> {}, slides |-> {}, seq |-> 0 ]

\* files.filename and files.hash are "not null unique"
\* (variant: only the hash column is unique)
FilesInsertOkHashOnly(db, filename, hash) ==
  \A f \in db.files : f.hash # hash

FilesInsertOk(db, filename, hash) ==
  \A f \in db.files : f.filename # filename /\ f.hash # hash

\* insert into files(filename, hash): rowid is autoincrement, nslides is not set
InsertFile(db, filename, hash) ==
  [ db EXCEPT !.files = @ \cup { [ rowid |-> db.seq + 1, filename |-> filename,
                                   hash |-> hash, nslides |-> NULL ] },
              !.seq = @ + 1 ]

\* (variant: the number of rows the statement inserted)
rowcount(db) == 1

\* cur.lastrowid after the insert into files: the rowid it was given
lastrowid(db) == db.seq

\* unique (fileid, islide)
SlidesInsertOk(db, fileid, islide) ==
  \A s \in db.slides : ~(s.fileid = fileid /\ s.islide = islide)

\* insert into slides(fileid, islide, fingerprint, textonly)
InsertSlide(db, fileid, slide, fingerprint) ==
  [ db EXCEPT !.slides = @ \cup { [ fileid |-> fileid, islide |-> slide.islide,
                                    fingerprint |-> fingerprint, thumb |-> NullBlob ] } ]

\* update slides set thumb=? where rowid=<the row just inserted>; when the
\* insert failed cur.lastrowid names no row and nothing is updated
UpdateThumb(db, inserted, fileid, slide) ==
  IF inserted
  THEN [ db EXCEPT !.slides = { IF s.fileid = fileid /\ s.islide = slide.islide
                                THEN [ s EXCEPT !.thumb = img_to_png_bytes(slide.thumb) ]
                                ELSE s : s \in @ } ]
  ELSE db

RECURSIVE HashList(_)
HashList(rows) ==
  IF rows = {} THEN << >>
  ELSE LET r == CHOOSE x \in rows : \A y \in rows : x.rowid <= y.rowid
       IN << r.hash >> \o HashList(rows \ {r})

\* (variant: only the first row of the result is read)
fetch_first_checksum(db) ==
  IF db.files = {} THEN << >> ELSE << Head(HashList(db.files)) >>

\* select hash from files
fetch_known_checksums(db) == HashList(db.files)

\* (variant: only the checksum added last is compared)
IsKnownLast(checksum, known) == known # << >> /\ known[Len(known)] = checksum

\* checksum in known_checksums
IsKnown(checksum, known) == checksum \in Range(known)

\* -------------------------------------------------------------- the state
NoDoc == [ fn |-> << >>, checksum |-> "", fileid |-> 0, slides |-> << >>, k |-> 0,
           insertFailed |-> FALSE ]

\* result: "None" | "Skipped" | "Indexed" | "Failed"; stage: the step of
\* process1 that ended it; the rest are the locals of process1 at that point.
Outcome(result, stage, d) ==
  [ fn |-> d.fn, result |-> result, stage |-> stage, checksum |-> d.checksum,
    fileid |-> d.fileid, nslides |-> Len(d.slides), insertFailed |-> d.insertFailed ]

NoOutcome == Outcome("None", "", NoDoc)

Init ==
  /\ content \in [ AbsFiles -> Hashes \cup {Unreadable} ]
  /\ dbC = EmptyDb
  /\ dbW = EmptyDb
  /\ auxfiles = {}
  /\ pc = "idle"
  /\ fns = << >>
  /\ known_checksums = << >>
  /\ doc = NoDoc
  /\ last = NoOutcome
  /\ presentations = << >>
  /\ argv = << >>

\* The end of process1 for the current candidate: main moves on to the next.
EndDocument(result, stage, d) ==
  /\ last' = Outcome(result, stage, d)
  /\ fns' = Tail(fns)
  /\ doc' = NoDoc
  /\ pc' = "loop"

\* ------------------------------------------------------------------ main
\* main, up to the for loop: db_connect, get_files_to_index,
\* fetch_known_checksums. A new process has a new connection, with no open
\* transaction.
Start(cands) ==
  /\ pc = "idle"
  /\ pc' = "loop"
  /\ fns' = cands
  /\ dbW' = dbC
  /\ known_checksums' = fetch_known_checksums(dbC)
  /\ doc' = NoDoc
  /\ last' = NoOutcome
  /\ UNCHANGED << content, dbC, auxfiles >>
  /\ UNCHANGED << presentations, argv >>

\* main raises before the for loop: db_connect cannot open or set up the
\* database, or fetch_known_checksums cannot read it. Nothing catches the
\* exception; the process ends.
StartupStages == { "db_connect", "fetch_known_checksums" }

StartFails(stage) ==
  /\ pc = "idle"
  /\ last' = Outcome("Fatal", stage, NoDoc)
  /\ dbW' = dbC
  /\ fns' = << >>
  /\ known_checksums' = << >>
  /\ UNCHANGED << content, dbC, auxfiles, pc, doc, presentations, argv >>

\* main returns after the last candidate; the process ends, and what the
\* connection had not committed is gone.
Exit ==
  /\ pc = "loop"
  /\ fns = << >>
  /\ pc' = "idle"
  /\ dbW' = dbC
  /\ known_checksums' = << >>
  /\ fns' = << >>
  /\ last' = NoOutcome
  /\ UNCHANGED << content, dbC, auxfiles, doc >>
  /\ UNCHANGED << presentations, argv >>

\* The run is interrupted (KeyboardInterrupt is no Exception, a kill, a
\* power cut): the process ends where it is.
Abort ==
  /\ pc # "idle"
  /\ ~(pc = "loop" /\ fns = << >>)
  /\ pc' = "idle"
  /\ dbW' = dbC
  /\ known_checksums' = << >>
  /\ doc' = NoDoc
  /\ fns' = << >>
  /\ last' = NoOutcome
  /\ UNCHANGED << content, dbC, auxfiles >>
  /\ UNCHANGED << presentations, argv >>

\* Between runs a file is edited, replaced, or its permissions change.
ModifyFile(p, c) ==
  /\ pc = "idle"
  /\ content[p] # c
  /\ content' = [ content EXCEPT ![p] = c ]
  /\ UNCHANGED << dbC, dbW, auxfiles, pc, fns, known_checksums, doc, last >>
  /\ UNCHANGED << presentations, argv >>

\* -------------------------------------------------------------- process1
\* file_checksum raises (the file cannot be read); main logs the failure.
Process1_ChecksumFails ==
  /\ pc = "loop"
  /\ fns # << >>
  /\ content[abspath(Head(fns))] = Unreadable
  /\ EndDocument("Failed", "checksum", [ NoDoc EXCEPT !.fn = Head(fns) ])
  /\ UNCHANGED << content, dbC, dbW, auxfiles, known_checksums >>
  /\ UNCHANGED << presentations, argv >>

\* the checksum is known: "skipping duplicate", return
Process1_Skip ==
  /\ pc = "loop"
  /\ fns # << >>
  /\ content[abspath(Head(fns))] # Unreadable
  /\ IsKnown(content[abspath(Head(fns))], known_checksums)
  /\ EndDocument("Skipped", "checksum",
                 [ NoDoc EXCEPT !.fn = Head(fns), !.checksum = content[abspath(Head(fns))] ])
  /\ UNCHANGED << content, dbC, dbW, auxfiles, known_checksums >>
  /\ UNCHANGED << presentations, argv >>

\* store_file raises on its insert: a unique constraint, or the database
\* cannot be written (dbok = FALSE). Nothing is written, nothing committed.
Process1_StoreFileFails(dbok) ==
  /\ pc = "loop"
  /\ fns # << >>
  /\ LET fn == Head(fns)
         checksum == content[abspath(fn)]
     IN /\ checksum # Unreadable
        /\ ~IsKnown(checksum, known_checksums)
        /\ ~dbok \/ ~FilesInsertOk(dbW, abspath(fn), checksum)
        /\ EndDocument("Failed", "store_file",
                       [ NoDoc EXCEPT !.fn = fn, !.checksum = checksum ])
  /\ UNCHANGED << content, dbC, dbW, auxfiles, known_checksums >>
  /\ UNCHANGED << presentations, argv >>

\* store_file inserts the files row and commits; the checksum is appended
\* to known_checksums; extract_slides comes next.
Process1_StoreFile ==
  /\ pc = "loop"
  /\ fns # << >>
  /\ LET fn == Head(fns)
         checksum == content[abspath(fn)]
         db == InsertFile(dbW, abspath(fn), checksum)
     IN /\ checksum # Unreadable
        /\ ~IsKnown(checksum, known_checksums)
        /\ FilesInsertOk(dbW, abspath(fn), checksum)
        /\ dbW' = db
        /\ dbC' = db
        /\ known_checksums' = Append(known_checksums, checksum)
        /\ doc' = [ NoDoc EXCEPT !.fn = fn, !.checksum = checksum, !.fileid = lastrowid(db) ]
        /\ pc' = "extract"
  /\ UNCHANGED << content, auxfiles, fns, last >>
  /\ UNCHANGED << presentations, argv >>

\* extract_slides, up to Presentations.Open(fn): the presentation is open in
\* PowerPoint (CreateObject hands out the one running application).
Process1_Open ==
  /\ pc = "extract"
  /\ pc' = "extracting"
  /\ presentations' = Append(presentations, abspath(doc.fn))
  /\ UNCHANGED << content, dbC, dbW, auxfiles, fns, known_checksums, doc, last, argv >>

\* extract_slides raises: PowerPoint cannot open the file (at "extract"), or
\* reading or rendering a slide fails (at "extracting"). Nothing closes what
\* was opened.
Process1_ExtractFails ==
  /\ pc \in { "extract", "extracting" }
  /\ EndDocument("Failed", "extract", doc)
  /\ UNCHANGED << content, dbC, dbW, auxfiles, known_checksums >>
  /\ UNCHANGED << presentations, argv >>

\* extract_slides: the slide loop has read every slide of the active
\* presentation; powerpoint.Presentations[1].Close() closes the first
\* presentation of the collection.
Process1_Extract(deck) ==
  /\ pc = "extracting"
  /\ doc' = [ doc EXCEPT !.slides = extract_slides(deck), !.k = 1 ]
  /\ presentations' = Tail(presentations)
  /\ pc' = "quit"
  /\ UNCHANGED << content, dbC, dbW, auxfiles, fns, known_checksums, last, argv >>

\* extract_slides: powerpoint.Quit() ends the application, and with it every
\* presentation still open; extract_slides returns. With no slide the for
\* loop of process1 has nothing to do and process1 returns.
Process1_Quit ==
  /\ pc = "quit"
  /\ presentations' = << >>
  /\ IF Len(doc.slides) = 0
     THEN EndDocument("Indexed", "done", doc)
     ELSE /\ pc' = "slides"
          /\ UNCHANGED << fns, doc, last >>
  /\ UNCHANGED << content, dbC, dbW, auxfiles, known_checksums, argv >>

\* Between runs someone closes the PowerPoint window a run left behind.
ClosePowerPoint ==
  /\ pc = "idle"
  /\ presentations # << >>
  /\ presentations' = << >>
  /\ UNCHANGED << content, dbC, dbW, auxfiles, pc, fns, known_checksums, doc, last, argv >>

\* The rest of store_slide once the insert is behind it: the text file, the
\* thumbnail update, the hires file, the commit; then the next slide, or the
\* end of process1. io says which of the file writes fails, if any:
\*   "txt"  open/write of <base>.txt raises, before the thumbnail update
\*   "png"  slide['hires'].save raises, after the thumbnail update
\* Either exception leaves store_slide before db.commit().
StoreSlideRest(db, inserted, io) ==
  LET slide == doc.slides[doc.k]
      txt == << doc.fileid, slide.islide, "txt" >>
      png == << doc.fileid, slide.islide, "png" >>
      upd == UpdateThumb(db, inserted, doc.fileid, slide)
      d == [ doc EXCEPT !.insertFailed = @ \/ ~inserted ]
  IN CASE io = "txt" ->
            /\ dbW' = db
            /\ UNCHANGED << dbC, auxfiles >>
            /\ EndDocument("Failed", "slide_io", d)
       [] io = "png" ->
            /\ dbW' = upd
            /\ auxfiles' = auxfiles \cup { txt }
            /\ UNCHANGED dbC
            /\ EndDocument("Failed", "slide_io", d)
       [] OTHER ->
            /\ dbW' = upd
            /\ dbC' = upd
            /\ auxfiles' = auxfiles \cup { txt, png }
            /\ IF doc.k = Len(doc.slides)
               THEN EndDocument("Indexed", "done", d)
               ELSE /\ doc' = [ d EXCEPT !.k = @ + 1 ]
                    /\ UNCHANGED << pc, fns, last >>

IoOutcomes == { "ok", "txt", "png" }

\* One turn of the for loop of process1: image_fingerprint, then store_slide
\* with a successful insert.
Process1_StoreSlide(io) ==
  /\ pc = "slides"
  /\ LET slide == doc.slides[doc.k]
     IN /\ SlidesInsertOk(dbW, doc.fileid, slide.islide)
        /\ StoreSlideRest(InsertSlide(dbW, doc.fileid, slide, image_fingerprint(slide.thumb)),
                          TRUE, io)
  /\ UNCHANGED << content, known_checksums >>
  /\ UNCHANGED << presentations, argv >>

\* The insert of store_slide raises (unique (fileid, islide), or the
\* database cannot be written): the handler prints the error and calls
\* pdb.set_trace(); the process waits at the debugger prompt.
Process1_SlideInsertFails(dbok) ==
  /\ pc = "slides"
  /\ ~dbok \/ ~SlidesInsertOk(dbW, doc.fileid, doc.slides[doc.k].islide)
  /\ pc' = "pdb"
  /\ doc' = [ doc EXCEPT !.insertFailed = TRUE ]
  /\ UNCHANGED << content, dbC, dbW, auxfiles, fns, known_checksums, last >>
  /\ UNCHANGED << presentations, argv >>

\* At the debugger prompt: "continue". store_slide goes on after the except
\* block as if the row had been inserted.
PdbContinue(io) ==
  /\ pc = "pdb"
  /\ StoreSlideRest(dbW, FALSE, io)
  /\ IF pc' = "loop" THEN TRUE ELSE pc' = "slides"
  /\ UNCHANGED << content, known_checksums >>
  /\ UNCHANGED << presentations, argv >>

\* At the debugger prompt: "quit", or end of input. bdb.BdbQuit is an
\* Exception; main catches and logs it.
PdbQuit ==
  /\ pc = "pdb"
  /\ EndDocument("Failed", "slide_insert", doc)
  /\ UNCHANGED << content, dbC, dbW, auxfiles, known_checksums >>
  /\ UNCHANGED << presentations, argv >>

CandidateLists == UNION { [1..n -> FileArgs] : n \in 0..MaxCands }

Next ==
  \/ \E cands \in CandidateLists : Start(cands)
  \/ \E stage \in StartupStages : StartFails(stage)
  \/ Exit
  \/ Abort
  \/ \E p \in AbsFiles, c \in Hashes \cup {Unreadable} : ModifyFile(p, c)
  \/ ClosePowerPoint
  \/ Process1_ChecksumFails
  \/ Process1_Skip
  \/ \E dbok \in BOOLEAN : Process1_StoreFileFails(dbok)
  \/ Process1_StoreFile
  \/ Process1_Open
  \/ Process1_ExtractFails
  \/ \E deck \in Decks : Process1_Extract(deck)
  \/ Process1_Quit
  \/ \E io \in IoOutcomes : Process1_StoreSlide(io)
  \/ \E dbok \in BOOLEAN : Process1_SlideInsertFails(dbok)
  \/ \E io \in IoOutcomes : PdbContinue(io)
  \/ PdbQuit

Spec == Init /\ [][Next]_vars

\* The pipeline left to itself: no interruption, no change of the files. The
\* interpreter keeps executing the program (weak fairness of its own steps);
\* nothing makes anyone answer a debugger prompt.
ProgramStep ==
  \/ Exit
  \/ Process1_ChecksumFails
  \/ Process1_Skip
  \/ \E dbok \in BOOLEAN : Process1_StoreFileFails(dbok)
  \/ Process1_StoreFile
  \/ Process1_Open
  \/ Process1_ExtractFails
  \/ \E deck \in Decks : Process1_Extract(deck)
  \/ Process1_Quit
  \/ \E io \in IoOutcomes : Process1_StoreSlide(io)
  \/ \E dbok \in BOOLEAN : Process1_SlideInsertFails(dbok)

NextLive ==
  \/ \E cands \in CandidateLists : Start(cands)
  \/ \E stage \in StartupStages : StartFails(stage)
  \/ ProgramStep
  \/ \E io \in IoOutcomes : PdbContinue(io)
  \/ PdbQuit

LiveSpec == Init /\ [][NextLive]_vars /\ WF_vars(ProgramStep)

\* ------------------------------------------------- get_files_to_index
\* Where discovery is followed, a file name is the sequence of its
\* characters and a path the sequence of its names, relative to the current
\* directory.
MaxArgs == 3

\* The file system: each entry with its place (pos) in the listing of its
\* directory.
FS ==
  { [ path |-> << <<"d">> >>, kind |-> "dir", pos |-> 1 ],
    [ path |-> << <<"d">>, <<"a", ".", "p", "p", "t", "x">> >>, kind |-> "file", pos |-> 1 ],
    [ path |-> << <<"d">>, <<"B", ".", "P", "P", "T">> >>, kind |-> "file", pos |-> 2 ],
    [ path |-> << <<"d">>, <<"n", ".", "t", "x", "t">> >>, kind |-> "file", pos |-> 3 ],
    [ path |-> << <<"d">>, <<"c", ".", "p", "p", "t", ".", "b">> >>, kind |-> "file", pos |-> 4 ],
    [ path |-> << <<"d">>, <<"s">> >>, kind |-> "dir", pos |-> 5 ],
    [ path |-> << <<"d">>, <<"s">>, <<"e", ".", "P", "p", "T", "x">> >>, kind |-> "file", pos |-> 1 ],
    [ path |-> << <<"d">>, <<"s">>, <<"p", "p", "t">> >>, kind |-> "file", pos |-> 2 ],
    [ path |-> << <<"d">>, <<"s">>, <<"t", ".", "p", "p", "t">> >>, kind |-> "dir", pos |-> 3 ],
    [ path |-> << <<"d">>, <<"s">>, <<"t", ".", "p", "p", "t">>, <<"f", ".", "p", "p", "t">> >>,
      kind |-> "file", pos |-> 1 ],
    [ path |-> << <<"d">>, <<"s">>, <<"t", ".", "p", "p", "t">>, <<".", "p", "p", "t">> >>,
      kind |-> "file", pos |-> 2 ],
    [ path |-> << <<"d">>, <<"s">>, <<"t", ".", "p", "p", "t">>, <<"g", ".", "p", "p", "t", "x", "x">> >>,
      kind |-> "file", pos |-> 3 ] }

\* The arguments a run may be given: directories, one inside the other and one
\* with the name of a document; files, one with another extension; and a
\* path that does not exist.
Args ==
  { << <<"d">> >>,
    << <<"d">>, <<"s">> >>,
    << <<"d">>, <<"s">>, <<"t", ".", "p", "p", "t">> >>,
    << <<"d">>, <<"a", ".", "p", "p", "t", "x">> >>,
    << <<"d">>, <<"n", ".", "t", "x", "t">> >>,
    << <<"d">>, <<"z">> >> }

ArgLists == UNION { [1..n -> Args] : n \in 0..MaxArgs }

\* os.path.isfile, os.path.isdir
isfile(path) == \E e \in FS : e.path = path /\ e.kind = "file"
isdir(path) == \E e \in FS : e.path = path /\ e.kind = "dir"

\* os.path.join(root, fn)
join(root, fn) == Append(root, fn)

\* The names in a directory, in the order the system lists them (rev: the
\* other way round; the order is the system's choice).
listdir(top, rev) ==
  LET ch == { e \in FS : Len(e.path) = Len(top) + 1
                         /\ SubSeq(e.path, 1, Len(top)) = top }
      n == Cardinality(ch)
  IN [ i \in 1..n |->
         LET e == CHOOSE x \in ch : x.pos = (IF rev THEN n + 1 - i ELSE i)
         IN e.path[Len(e.path)] ]

\* A pattern is a sequence of items: a character class (any: every character
\* but a newline) and how often it may occur ("1", "?", "*").
Item(any, set, q) == [ any |-> any, set |-> set, q |-> q ]

\* (variant: lower case only)
regexpLowerCase ==
  << Item(TRUE, {}, "*"), Item(FALSE, {"."}, "1"),
     Item(FALSE, {"p"}, "1"), Item(FALSE, {"p"}, "1"),
     Item(FALSE, {"t"}, "1"), Item(FALSE, {"x"}, "?") >>

\* re.compile('^.*\.[pP][pP][tT][xX]?$')
regexp ==
  << Item(TRUE, {}, "*"), Item(FALSE, {"."}, "1"),
     Item(FALSE, {"p", "P"}, "1"), Item(FALSE, {"p", "P"}, "1"),
     Item(FALSE, {"t", "T"}, "1"), Item(FALSE, {"x", "X"}, "?") >>

InClass(c, item) == IF item.any THEN c # "\n" ELSE c \in item.set

\* pattern.match(string): the pattern, anchored at the start of the string,
\* then $ (the end of the string, or just before a newline that ends it)
RECURSIVE re_match(_, _)
re_match(pat, str) ==
  IF pat = << >> THEN str = << >> \/ str = << "\n" >>
  ELSE LET item == Head(pat)
           one == /\ str # << >>
                  /\ InClass(Head(str), item)
                  /\ re_match(IF item.q = "*" THEN pat ELSE Tail(pat), Tail(str))
       IN IF item.q = "1" THEN one ELSE one \/ re_match(Tail(pat), str)

\* for root, dirnames, filenames in os.walk(arg):
\*     fns += [os.path.join(root, fn) for fn in filenames if regexp.match(fn)]
\* os.walk gives a directory before the directories in it.
RECURSIVE walk_matches(_, _)
RECURSIVE walk_dirs(_, _, _)
walk_matches(root, rev) ==
  LET names == listdir(root, rev)
      filenames == SelectSeq(names, LAMBDA n : isfile(join(root, n)))
      dirnames == SelectSeq(names, LAMBDA n : isdir(join(root, n)))
      found == SelectSeq(filenames, LAMBDA n : re_match(regexp, n))
  IN [ i \in 1..Len(found) |-> join(root, found[i]) ] \o walk_dirs(root, dirnames, rev)

walk_dirs(root, dirnames, rev) ==
  IF dirnames = << >> THEN << >>
  ELSE walk_matches(join(root, Head(dirnames)), rev) \o walk_dirs(root, Tail(dirnames), rev)

RECURSIVE get_files_to_index(_, _)
get_files_to_index(args, rev) ==
  IF args = << >> THEN << >>
  ELSE LET arg == Head(args)
       IN (IF isfile(arg) THEN << arg >>
           ELSE IF isdir(arg) THEN walk_matches(arg, rev)
           ELSE << >>)
          \o get_files_to_index(Tail(args), rev)

\* main up to the for loop, with the arguments of the run in argv
Discover(rev) ==
  /\ pc = "idle"
  /\ pc' = "loop"
  /\ fns' = get_files_to_index(argv, rev)
  /\ dbW' = dbC
  /\ known_checksums' = fetch_known_checksums(dbC)
  /\ doc' = NoDoc
  /\ last' = NoOutcome
  /\ UNCHANGED << content, dbC, auxfiles, presentations, argv >>

DiscInit ==
  /\ content = [ p \in AbsFiles |-> "h1" ]
  /\ dbC = EmptyDb
  /\ dbW = EmptyDb
  /\ auxfiles = {}
  /\ pc = "idle"
  /\ fns = << >>
  /\ known_checksums = << >>
  /\ doc = NoDoc
  /\ last = NoOutcome
  /\ presentations = << >>
  /\ argv \in ArgLists

DiscNext == \E rev \in BOOLEAN : Discover(rev)

DiscSpec == DiscInit /\ [][DiscNext]_vars

\* ============================================================== properties
FileRows(db, checksum) == { f \in db.files : f.hash = checksum }
SlideRows(db, fileid) == { s \in db.slides : s.fileid = fileid }
Ordinals(db, fileid) == { s.islide : s \in SlideRows(db, fileid) }
StoredHashes(db) == { f.hash : f \in db.files }
InProgress == pc \in { "extract", "extracting", "quit", "slides", "pdb" }
AtBoundary == pc = "loop"

\* C1 (Atomicity): after a document has failed at a step after the hash
\* check, the store holds no Document row and no Slide row for it.
C1_Atomicity ==
  (AtBoundary /\ last.result = "Failed" /\ last.stage # "checksum")
    => /\ FileRows(dbC, last.checksum) = {}
       /\ (last.fileid # 0 => SlideRows(dbC, last.fileid) = {})

\* C2 (Integrity): whenever no document is in progress, every Document row
\* has as many Slide rows as its nslides says, with ordinals 1..nslides.
C2_Integrity ==
  ~InProgress =>
    \A f \in dbC.files :
      /\ f.nslides # NULL
      /\ Cardinality(SlideRows(dbC, f.rowid)) = f.nslides
      /\ Ordinals(dbC, f.rowid) = 1..f.nslides

\* C3 (Retry after failure): the hash of a document that ended in Failed is
\* neither in the in-memory known-hash list nor among the hashes the next
\* run will load from the store.
C3_RetryAfterFailure ==
  (AtBoundary /\ last.result = "Failed" /\ last.checksum # "")
    => /\ ~IsKnown(last.checksum, known_checksums)
       /\ ~IsKnown(last.checksum, fetch_known_checksums(dbC))

AtMostOnePerHash(db) == \A f, g \in db.files : f.hash = g.hash => f = g

\* C4 (Exactly-once indexing): the store never holds two Document rows with
\* the same hash, and a candidate whose content already has a Document row
\* ends in Skipped without a Document row being added.

C5_EveryCandidateEnds == (pc # "idle") ~> (pc = "loop" /\ fns = << >>)

\* C6 (Known-hash update ordering): while a document is being extracted or
\* its slides are being persisted, its hash is not in the known-hash list.
C6_KnownAfterCommit == InProgress => ~IsKnown(doc.checksum, known_checksums)

\* C7 (All-or-nothing committed state): the committed store holds no row of
\* a document in progress, no row of a document that failed, and the whole
\* slide set of a document that ended in Indexed.
C7_AllOrNothing ==
  /\ InProgress => /\ \A f \in dbC.files : f.rowid # doc.fileid
                   /\ SlideRows(dbC, doc.fileid) = {}
  /\ (AtBoundary /\ last.result = "Failed" /\ last.fileid # 0)
       => /\ \A f \in dbC.files : f.rowid # last.fileid
          /\ SlideRows(dbC, last.fileid) = {}
  /\ (AtBoundary /\ last.result = "Indexed")
       => /\ \E f \in dbC.files : f.rowid = last.fileid
          /\ Ordinals(dbC, last.fileid) = 1..last.nslides

\* C8 (Persistence failures are surfaced): a document one of whose slide
\* inserts failed ends in Failed, recorded against its path, with all its
\* writes rolled back.
C8_Surfaced ==
  (AtBoundary /\ last.insertFailed)
    => /\ last.result = "Failed"
       /\ last.fn # << >>
       /\ FileRows(dbW, last.checksum) = {} /\ FileRows(dbC, last.checksum) = {}
       /\ SlideRows(dbW, last.fileid) = {} /\ SlideRows(dbC, last.fileid) = {}

IndexedWhole(db, o) ==
  /\ Cardinality(FileRows(db, o.checksum)) = 1
  /\ \A f \in FileRows(db, o.checksum) : f.rowid = o.fileid
  /\ Cardinality(SlideRows(db, o.fileid)) = o.nslides
  /\ Ordinals(db, o.fileid) = 1..o.nslides

\* C9 (Run idempotence): a document that ended in Indexed with no failed
\* step has exactly one Document row for its hash and exactly its N Slide
\* rows, numbered 1..N; and a run all of whose remaining candidates are
\* already in the store, with nothing uncommitted, changes neither table.

C9_RunIdempotent ==
  [][ /\ (pc' = "loop" /\ last'.result = "Indexed" /\ ~last'.insertFailed)
         => IndexedWhole(dbC', last')
      /\ ( /\ pc = "loop" /\ dbW = dbC
           /\ \A i \in DOMAIN fns : content[abspath(fns[i])] \in StoredHashes(dbC) )
         => /\ dbC' = dbC /\ dbW' = dbW
            /\ (pc' = "loop" => last'.result \in {"None", "Skipped"}) ]_vars

C9_Witness ==
  /\ AtBoundary /\ fns = << >> /\ dbW = dbC
  /\ last.result = "Skipped"
  /\ \E f \in dbC.files :
       /\ f.hash = last.checksum
       /\ f.filename = abspath(last.fn)
       /\ \A p \in AbsFiles : content[p] = f.hash
       /\ Cardinality(dbC.files) = 1
       /\ Cardinality(SlideRows(dbC, f.rowid)) = MaxSlides
       /\ Ordinals(dbC, f.rowid) = 1..MaxSlides

SameThumbSameFingerprint(db) ==
  \A s, t \in db.slides :
    (s.thumb # NullBlob /\ s.thumb = t.thumb) => s.fingerprint = t.fingerprint

\* C10 (Fingerprint determinism): two Slide rows that hold the same
\* thumbnail hold the same fingerprint, whatever their document and slide
\* number and whenever they were written.

C11_SkippedNoOp ==
  [][ ( /\ pc = "loop" /\ fns # << >>
        /\ content[abspath(Head(fns))] \in Range(known_checksums)
        /\ pc' # "idle" )
      => /\ pc' = "loop"
         /\ last'.result = "Skipped" /\ last'.fn = Head(fns)
         /\ dbC' = dbC /\ dbW' = dbW
         /\ Range(known_checksums') = Range(known_checksums)
         /\ auxfiles' = auxfiles
         /\ presentations' = presentations ]_vars

C11_Witness ==
  /\ AtBoundary
  /\ last.result = "Skipped"
  /\ dbC.slides # {} /\ auxfiles # {}
  /\ presentations # << >>

\* C12 (Extractor exclusivity): PowerPoint never has more than one
\* presentation open; while a document is being read it is the one open;
\* once the extraction has closed a presentation, the document it opened is
\* not open any more; between two candidates nothing is open.
C12_ExtractorExclusive ==
  /\ Len(presentations) <= 1
  /\ (pc = "extracting" => presentations = << abspath(doc.fn) >>)
  /\ (pc = "quit" => abspath(doc.fn) \notin Range(presentations))
  /\ (AtBoundary => presentations = << >>)

\* C13 (Fatal startup only): a run whose startup fails ends at once, with
\* no candidate visited and nothing written; a run ends in no other way
\* before its last candidate, and every run that started gets to the end of
\* its candidate list.
C13_FatalStartupOnly ==
  /\ [][ /\ (pc = "idle" /\ last'.result = "Fatal")
            => /\ pc' = "idle" /\ fns' = << >>
               /\ dbC' = dbC /\ dbW' = dbW /\ auxfiles' = auxfiles
               /\ presentations' = presentations
         /\ (pc # "idle" /\ pc' = "idle") => (pc = "loop" /\ fns = << >>) ]_vars
  /\ (pc # "idle") ~> (pc = "idle")

\* C14 (Path uniqueness under modification): no two rows of files share a
\* filename; and a candidate whose absolute path has a row while its checksum
\* has none ends as Failed, with both tables and the known checksums as they
\* were.
PathIndexedHashNew ==
  /\ pc = "loop" /\ fns # << >>
  /\ content[abspath(Head(fns))] # Unreadable
  /\ content[abspath(Head(fns))] \notin StoredHashes(dbC)
  /\ \E f \in dbC.files : f.filename = abspath(Head(fns))

C14_PathUnique ==
  /\ [](\A db \in { dbC, dbW } :
          \A f, g \in db.files : f.filename = g.filename => f = g)
  /\ [][ (PathIndexedHashNew /\ pc' # "idle")
         => /\ pc' = "loop"
            /\ last'.result = "Failed" /\ last'.fn = Head(fns)
            /\ dbC' = dbC /\ dbW' = dbW
            /\ known_checksums' = known_checksums
            /\ content[abspath(Head(fns))] \notin Range(known_checksums') ]_vars

C14_Witness ==
  /\ AtBoundary
  /\ last.result = "Failed" /\ last.stage = "store_file"
  /\ last.checksum \notin StoredHashes(dbC) \cup Range(known_checksums)
  /\ \E f \in dbC.files : f.filename = abspath(last.fn) /\ f.hash # last.checksum
  /\ dbC.slides # {}

C16_SlideOwnership ==
  /\ [](\A db \in { dbC, dbW } :
          \A s \in db.slides : \E f \in db.files : f.rowid = s.fileid)
  /\ [][ \A s \in dbW'.slides \ dbW.slides :
           /\ pc \in { "slides", "pdb" }
           /\ s.fileid = doc.fileid
           /\ \E f \in dbW.files : /\ f.rowid = s.fileid
                                   /\ f.filename = abspath(doc.fn)
                                   /\ f.hash = doc.checksum ]_vars

C16_Witness ==
  /\ AtBoundary
  /\ last.result = "Indexed"
  /\ Cardinality(dbC.files) = 2
  /\ \A f \in dbC.files : SlideRows(dbC, f.rowid) # {}

\* C17 (Discovery): the candidate list is, argument by argument and in the
\* order of the arguments: for a directory, the files anywhere under it whose
\* names end in .ppt or .pptx whatever the case of the letters, each once;
\* for a file, that file, whatever its name; for anything else, nothing.
lower(c) == CASE c = "P" -> "p" [] c = "T" -> "t" [] c = "X" -> "x" [] OTHER -> c

EndsWithNoCase(name, suffix) ==
  /\ Len(name) >= Len(suffix)
  /\ \A i \in 1..Len(suffix) : lower(name[Len(name) - Len(suffix) + i]) = suffix[i]

IsDocumentName(name) ==
  \/ EndsWithNoCase(name, << ".", "p", "p", "t" >>)
  \/ EndsWithNoCase(name, << ".", "p", "p", "t", "x" >>)

DocumentsUnder(dir) ==
  { e.path : e \in { x \in FS : /\ x.kind = "file"
                                /\ Len(x.path) > Len(dir)
                                /\ SubSeq(x.path, 1, Len(dir)) = dir
                                /\ IsDocumentName(x.path[Len(x.path)]) } }

CandidatesOf(seg, arg) ==
  IF isfile(arg) THEN seg = << arg >>
  ELSE IF isdir(arg)
       THEN Range(seg) = DocumentsUnder(arg) /\ Len(seg) = Cardinality(DocumentsUnder(arg))
       ELSE seg = << >>

RECURSIVE InArgumentOrder(_, _)
InArgumentOrder(cands, args) ==
  IF args = << >> THEN cands = << >>
  ELSE \E n \in 0..Len(cands) :
         /\ CandidatesOf(SubSeq(cands, 1, n), Head(args))
         /\ InArgumentOrder(SubSeq(cands, n + 1, Len(cands)), Tail(args))

C17_Discovery ==
  AtBoundary => InArgumentOrder(fns, argv)

C17_Witness ==
  /\ AtBoundary
  /\ Len(argv) = 3
  /\ ~isfile(argv[1]) /\ ~isdir(argv[1])
  /\ isdir(argv[2]) /\ Cardinality(DocumentsUnder(argv[2])) = 5
  /\ isfile(argv[3]) /\ ~IsDocumentName(argv[3][Len(argv[3])])
  /\ Len(fns) = 6
  /\ fns[1][Len(fns[1])] = << "B", ".", "P", "P", "T" >>
  /\ fns[5][Len(fns[5])] = << "f", ".", "p", "p", "t" >>
  /\ fns[6] = argv[3]

====
